---- MODULE Spec2Model ----
(***************************************************************************)
(* Retrieval pipeline of rag-langchain-presidential-speeches.ipynb:        *)
(* token-window chunking, embedding, an insertion-ordered store of         *)
(* embedded chunks, and cosine-similarity retrieval.                       *)
(*                                                                         *)
(* A text is modelled by its token sequence <<1, ..., N>> (token i is the  *)
(* token at 0-based offset i-1), so a window is the sequence of the token  *)
(* positions it holds.  The library calls of the notebook are modelled by  *)
(* what the libraries compute:                                             *)
(*   TokenTextSplitter.split_text  langchain_text_splitters                *)
(*                                 split_text_on_tokens, as in the current *)
(*                                 release (the notebook pins no version): *)
(*                                 it rejects tokens_per_chunk <=          *)
(*                                 chunk_overlap and stops once a window   *)
(*                                 reaches the end of the text             *)
(*   cosine_similarity             sklearn.metrics.pairwise                *)
(*   np.argmax                     index of the first maximum              *)
(*   PineconeVectorStore.from_documents                                    *)
(*                                 langchain_pinecone add_texts: embeds    *)
(*                                 and upserts embedding_chunk_size texts  *)
(*                                 at a time                               *)
(* The operations add, all and search of the Document Store and Similarity *)
(* Index have no code in the notebook and are modelled from the design     *)
(* document (sections 4.2 and 4.3).                                        *)
(***************************************************************************)
EXTENDS Integers, Sequences, FiniteSets, TLC

\* ---------------------------------------------------------------- bounds
MaxTokens == 7
MaxChunk == 4

\* ---------------------------------------------------------------- helpers
Min(a, b) == IF a < b THEN a ELSE b

Max(a, b) == IF a > b THEN a ELSE b

\* ceil(a / b) for b > 0 and any integer a
CeilDiv(a, b) == -((-a) \div b)

\* the token sequence of a text of n tokens
Tokens(n) == [i \in 1..n |-> i]

\* ---------------------------------------------------------------- Chunker
\* TokenTextSplitter(chunk_size, chunk_overlap): the constructor's checks
\* (chunk_size <= 0, chunk_overlap < 0, chunk_overlap > chunk_size) and
\* split_text_on_tokens' check (tokens_per_chunk <= chunk_overlap).
SplitRejectsLax(chunk_size, chunk_overlap) ==
    \/ chunk_overlap > chunk_size
    \/ chunk_size <= chunk_overlap

SplitRejects(chunk_size, chunk_overlap) ==
    \/ chunk_size <= 0
    \/ chunk_overlap < 0
    \/ chunk_overlap > chunk_size
    \/ chunk_size <= chunk_overlap

\* start_idx += tokens_per_chunk - chunk_overlap
StrideGap(chunk_size, chunk_overlap) == chunk_size - chunk_overlap + 1

StrideWide(chunk_size, chunk_overlap) == chunk_size

Stride(chunk_size, chunk_overlap) == chunk_size - chunk_overlap

\* if cur_idx == len(input_ids): break
AtEndNever(cur_idx, n) == FALSE

AtEnd(cur_idx, n) == cur_idx = n

\* the loop of split_text_on_tokens, entered with start_idx and the splits
\* collected so far
RECURSIVE SplitLoop(_, _, _, _, _)
SplitLoop(input_ids, start_idx, chunk_size, chunk_overlap, splits) ==
    IF start_idx >= Len(input_ids) THEN splits
    ELSE LET cur_idx == Min(start_idx + chunk_size, Len(input_ids))
             chunk_ids == SubSeq(input_ids, start_idx + 1, cur_idx)
         IN  IF chunk_ids = <<>> THEN splits
             ELSE LET appended == Append(splits, chunk_ids)
                  IN  IF AtEnd(cur_idx, Len(input_ids)) THEN appended
                      ELSE SplitLoop(input_ids,
                                     start_idx + Stride(chunk_size, chunk_overlap),
                                     chunk_size, chunk_overlap, appended)

\* text_splitter.split_text(text), on accepted parameters
SplitText(input_ids, chunk_size, chunk_overlap) ==
    SplitLoop(input_ids, 0, chunk_size, chunk_overlap, <<>>)

\* ---------------------------------------------------------------- Embedder
\* embedding_function.embed_query(text): a fixed-length vector, the same for
\* the same text.  The model's stand-in is a fixed function of the text,
\* of length 2.
Embed(page) == <<page.chunk_num, Len(page.body)>>

\* ---------------------------------------------------------------- cosine similarity
RECURSIVE DotFrom(_, _, _)
DotFrom(a, b, i) ==
    IF i > Len(a) THEN 0 ELSE a[i] * b[i] + DotFrom(a, b, i + 1)

Dot(a, b) == DotFrom(a, b, 1)

\* squared norm as sklearn's normalize uses it: a zero norm is replaced by 1
NormSqRaw(a) == Dot(a, a)

NormSq(a) == IF Dot(a, a) = 0 THEN 1 ELSE Dot(a, a)

\* cosine_similarity(a, q) = dot(a, q) / (|a| |q|), kept exact as the signed
\* square of the cosine: num / den with den > 0.  x |-> x * |x| is strictly
\* increasing, so comparing these fractions compares the cosines.
Cosine(a, q) ==
    LET d == Dot(a, q)
    IN  [num |-> IF d < 0 THEN -(d * d) ELSE d * d, den |-> NormSq(a) * NormSq(q)]

ScoreLess(x, y) == x.num * y.den < y.num * x.den

ScoreEq(x, y) == x.num * y.den = y.num * x.den

\* ---------------------------------------------------------------- Document Store
\* add(chunk, vector): rejected before any mutation when the vector's length
\* disagrees with the established dimension (0: none established yet).
StoreAddUnchecked(st, dim, chunk, vector) ==
    [ok |-> dim = 0 \/ Len(vector) = dim,
     store |-> Append(st, [chunk |-> chunk, vector |-> vector]),
     dimension |-> IF dim = 0 THEN Len(vector) ELSE dim]

StoreAdd(st, dim, chunk, vector) ==
    IF dim # 0 /\ Len(vector) # dim
    THEN [ok |-> FALSE, store |-> st, dimension |-> dim]
    ELSE [ok |-> TRUE,
          store |-> Append(st, [chunk |-> chunk, vector |-> vector]),
          dimension |-> Len(vector)]

\* all(): where a fresh iteration starts, given the previous iteration
AllStartResume(prev) == IF prev.valid THEN Len(prev.seq) ELSE 0

AllStart(prev) == 0

\* all(): the entries in insertion order as of the call
StoreAll(st, prev) == SubSeq(st, AllStart(prev) + 1, Len(st))

\* ---------------------------------------------------------------- Similarity Index
\* the similarity of the query to every stored vector, in store order
Scores(st, q) == [i \in 1..Len(st) |-> Cosine(st[i].vector, q)]

\* entry i is ranked before entry j: higher score, or equal score and
\* inserted earlier
RankedBeforeLatestFirst(sc, i, j) ==
    \/ ScoreLess(sc[j], sc[i])
    \/ ScoreEq(sc[j], sc[i]) /\ i > j

RankedBefore(sc, i, j) ==
    \/ ScoreLess(sc[j], sc[i])
    \/ ScoreEq(sc[j], sc[i]) /\ i < j

\* 1-based rank of entry i among all entries
RankOf(sc, i) ==
    Cardinality({j \in 1..Len(sc) : RankedBefore(sc, j, i)}) + 1

\* search(q, k): the arguments it refuses with an input error
SearchRejectsDimensionOnly(dim, q, k) == dim # 0 /\ Len(q) # dim

SearchRejects(dim, q, k) == k <= 0 \/ (dim # 0 /\ Len(q) # dim)

\* search(q, k) on accepted arguments: the k best-ranked entries
TopK(st, q, k) ==
    LET sc == Scores(st, q)
        rank == [i \in 1..Len(st) |-> RankOf(sc, i)]
    IN  [r \in 1..Min(k, Len(st)) |->
            LET i == CHOOSE i \in 1..Len(st) : rank[i] = r
            IN  [index |-> i, chunk |-> st[i].chunk, score |-> sc[i]]]

\* ---------------------------------------------------------------- Retrieval Pipeline
\* the inner loop of the documents-building cell: chunk_num in
\* range(1, total_chunks + 1), header + chunk appended to documents
LastChunkNumShort(total_chunks) == total_chunks - 1

LastChunkNum(total_chunks) == total_chunks

RECURSIVE RowDocumentsZeroBased(_, _, _)
RowDocumentsZeroBased(row, chunks, chunk_num) ==
    IF chunk_num > LastChunkNum(Len(chunks)) THEN <<>>
    ELSE <<[meta |-> row.meta, chunk_num |-> chunk_num - 1,
            total_chunks |-> Len(chunks), body |-> chunks[chunk_num]]>>
         \o RowDocumentsZeroBased(row, chunks, chunk_num + 1)

RECURSIVE RowDocuments(_, _, _)
RowDocuments(row, chunks, chunk_num) ==
    IF chunk_num > LastChunkNum(Len(chunks)) THEN <<>>
    ELSE <<[meta |-> row.meta, chunk_num |-> chunk_num,
            total_chunks |-> Len(chunks), body |-> chunks[chunk_num]]>>
         \o RowDocuments(row, chunks, chunk_num + 1)

\* the outer loop: the rows whose Transcript is not null, in order
RECURSIVE BuildDocuments(_, _, _, _)
BuildDocuments(rows, r, chunk_size, chunk_overlap) ==
    IF r > Len(rows) THEN <<>>
    ELSE (IF rows[r].notnull
          THEN RowDocuments(rows[r],
                            SplitText(Tokens(rows[r].ntok), chunk_size, chunk_overlap), 1)
          ELSE <<>>)
         \o BuildDocuments(rows, r + 1, chunk_size, chunk_overlap)

\* texts embedded per embed_documents call of add_texts (the library's
\* embedding_chunk_size, scaled down)
EmbeddingChunkSize == 2

\* upsert of one embedded batch: each vector goes through the store's add
RECURSIVE UpsertPrepend(_, _, _, _)
UpsertPrepend(st, dim, texts, i) ==
    IF i > Len(texts) THEN [ok |-> TRUE, store |-> st, dimension |-> dim]
    ELSE LET a == StoreAdd(st, dim, texts[i], Embed(texts[i]))
         IN  IF a.ok
             THEN UpsertPrepend(<<a.store[Len(a.store)]>> \o st, a.dimension, texts, i + 1)
             ELSE [ok |-> FALSE, store |-> st, dimension |-> dim]

RECURSIVE Upsert(_, _, _, _)
Upsert(st, dim, texts, i) ==
    IF i > Len(texts) THEN [ok |-> TRUE, store |-> st, dimension |-> dim]
    ELSE LET a == StoreAdd(st, dim, texts[i], Embed(texts[i]))
         IN  IF a.ok THEN Upsert(a.store, a.dimension, texts, i + 1)
             ELSE [ok |-> FALSE, store |-> st, dimension |-> dim]

\* PineconeVectorStore.from_documents -> add_texts: for each slice of
\* EmbeddingChunkSize texts, embed the slice, then upsert it.  fail is the
\* position of the first text the Embedder fails on (0: it never fails).
\* embedded lists the positions of the texts handed to the Embedder.
RECURSIVE AddTexts(_, _, _, _, _)
AddTexts(st, dim, texts, i, fail) ==
    IF i > Len(texts)
    THEN [status |-> "ok", store |-> st, dimension |-> dim, embedded |-> <<>>]
    ELSE LET last == Min(i + EmbeddingChunkSize - 1, Len(texts))
             slice == [j \in 1..(last - i + 1) |-> i + j - 1]
         IN  IF fail \in i..last
             THEN [status |-> "collaborator_error", store |-> st, dimension |-> dim,
                   embedded |-> slice]
             ELSE LET u == Upsert(st, dim, SubSeq(texts, i, last), 1)
                  IN  IF u.ok
                      THEN LET rest == AddTexts(u.store, u.dimension, texts, last + 1, fail)
                           IN  [rest EXCEPT !.embedded = slice \o @]
                      ELSE [status |-> "input_error", store |-> st, dimension |-> dim,
                            embedded |-> slice]

\* docsearch.similarity_search(question, k): embed the question, query the
\* index with the vector and k, return the matches.  The store is only read
\* and the chat completion is not called.  fail: the Embedder fails.
SimilaritySearchPersisting(st, dim, question, k, fail) ==
    [status |-> IF fail THEN "collaborator_error"
                ELSE IF SearchRejects(dim, Embed(question), k) THEN "input_error"
                ELSE "ok",
     out |-> IF fail \/ SearchRejects(dim, Embed(question), k) THEN <<>>
             ELSE TopK(st, Embed(question), k),
     store |-> Append(st, [chunk |-> question, vector |-> Embed(question)]),
     embedded |-> <<question>>,
     composed |-> 0]

SimilaritySearch(st, dim, question, k, fail) ==
    IF fail
    THEN [status |-> "collaborator_error", out |-> <<>>, store |-> st,
          embedded |-> <<question>>, composed |-> 0]
    ELSE LET q == Embed(question)
         IN  IF SearchRejects(dim, q, k)
             THEN [status |-> "input_error", out |-> <<>>, store |-> st,
                   embedded |-> <<question>>, composed |-> 0]
             ELSE [status |-> "ok", out |-> TopK(st, q, k), store |-> st,
                   embedded |-> <<question>>, composed |-> 0]

\* np.argmax(similarities): the scan keeps the first maximum
ImprovesOrTies(x, best) == ~ScoreLess(x, best)

Improves(x, best) == ScoreLess(best, x)

RECURSIVE ArgMaxFrom(_, _, _)
ArgMaxFrom(sc, i, best) ==
    IF i > Len(sc) THEN best
    ELSE ArgMaxFrom(sc, i + 1, IF Improves(sc[i], sc[best]) THEN i ELSE best)

ArgMax(sc) == ArgMaxFrom(sc, 2, 1)

\* ---------------------------------------------------------------- bounds and inputs
MaxStore == 3
MaxK == 3

\* corpus rows: metadata, whether Transcript is present, and its token count
RowA == [meta |-> "A", notnull |-> TRUE, ntok |-> 3]

RowB == [meta |-> "B", notnull |-> TRUE, ntok |-> 1]

RowC == [meta |-> "C", notnull |-> TRUE, ntok |-> 0]

RowD == [meta |-> "D", notnull |-> FALSE, ntok |-> 0]

\* the corpora offered to ingest
RowSeqs ==
    {<<>>, <<RowA>>, <<RowB>>, <<RowA, RowB>>, <<RowB, RowA>>,
     <<RowC, RowB>>, <<RowB, RowD>>, <<RowC, RowA>>}

\* (max_tokens, overlap_tokens) pairs offered to ingest; the last is invalid
IngestParams == {<<2, 1>>, <<1, 1>>}

\* vectors offered to add
VectorSet == {<<1, 0>>, <<0, 0>>, <<1>>}

\* query vectors offered to search
QuerySet == {<<1, -1>>, <<0, 0>>, <<1>>}

\* the questions offered to query
QuestionSet ==
    {[meta |-> "Q", chunk_num |-> 1, total_chunks |-> 1, body |-> <<1>>],
     [meta |-> "Q", chunk_num |-> 1, total_chunks |-> 1, body |-> <<1, 2>>]}

\* the chunk offered to add
ManualChunk == [meta |-> "M", chunk_num |-> 1, total_chunks |-> 1, body |-> <<1>>]

\* ---------------------------------------------------------------- state
VARIABLES
    store,      \* the Document Store: sequence of [chunk, vector], insertion order
    dimension,  \* the store's established dimension, 0 before the first insert
    lastAll,    \* the previous all() iteration, valid while the store is unchanged
    call,       \* the last call: operation, arguments, outcome, store before it
    iter        \* the sequence produced by all() while it is being consumed

vars == <<store, dimension, lastAll, call, iter>>

NoCall == [op |-> "none", status |-> "ok", arg |-> <<>>, out |-> <<>>,
           pre |-> <<>>, predim |-> 0]

NoIteration == [valid |-> FALSE, seq |-> <<>>]

\* no sequence is being consumed.  limit: the store's size when all() was
\* called; pos: entries consumed; yielded: the entries produced so far;
\* snap: the store when all() was called
NoIter == [open |-> FALSE, done |-> FALSE, limit |-> 0, pos |-> 0,
           yielded |-> <<>>, snap |-> <<>>]

Init ==
    /\ store = <<>>
    /\ dimension = 0
    /\ lastAll = NoIteration
    /\ call = NoCall
    /\ iter = NoIter

\* The chunking cell: build the splitter and split a text of n tokens.
Split(n, chunk_size, chunk_overlap) ==
    /\ call' = IF SplitRejects(chunk_size, chunk_overlap)
               THEN [op |-> "split", status |-> "input_error",
                     arg |-> <<n, chunk_size, chunk_overlap>>, out |-> <<>>,
                     pre |-> store, predim |-> dimension]
               ELSE [op |-> "split", status |-> "ok",
                     arg |-> <<n, chunk_size, chunk_overlap>>,
                     out |-> SplitText(Tokens(n), chunk_size, chunk_overlap),
                     pre |-> store, predim |-> dimension]
    /\ UNCHANGED <<store, dimension, lastAll, iter>>

\* add(chunk, vector)
Add(chunk, vector) ==
    /\ Len(store) < MaxStore
    /\ LET a == StoreAdd(store, dimension, chunk, vector)
       IN  /\ store' = a.store
           /\ dimension' = a.dimension
           /\ lastAll' = IF a.ok THEN NoIteration ELSE lastAll
           /\ call' = [op |-> "add", status |-> IF a.ok THEN "ok" ELSE "input_error",
                       arg |-> <<chunk, vector>>,
                       out |-> IF a.ok THEN <<Len(a.store)>> ELSE <<>>,
                       pre |-> store, predim |-> dimension]
    /\ UNCHANGED iter

\* all()
All ==
    /\ LET seq == StoreAll(store, lastAll)
       IN  /\ call' = [op |-> "all", status |-> "ok", arg |-> <<lastAll>>,
                       out |-> seq, pre |-> store, predim |-> dimension]
           /\ lastAll' = [valid |-> TRUE, seq |-> seq]
    /\ UNCHANGED <<store, dimension, iter>>

\* search(query_vector, k)
Search(q, k) ==
    /\ call' = IF SearchRejects(dimension, q, k)
               THEN [op |-> "search", status |-> "input_error", arg |-> <<q, k>>,
                     out |-> <<>>, pre |-> store, predim |-> dimension]
               ELSE [op |-> "search", status |-> "ok", arg |-> <<q, k>>,
                     out |-> TopK(store, q, k), pre |-> store, predim |-> dimension]
    /\ UNCHANGED <<store, dimension, lastAll, iter>>

\* ingest(documents, max_tokens, overlap_tokens): the documents-building cell
\* followed by from_documents
Ingest(rows, chunk_size, chunk_overlap, fail) ==
    IF SplitRejects(chunk_size, chunk_overlap)
    THEN /\ fail = 0
         /\ call' = [op |-> "ingest", status |-> "input_error",
                     arg |-> <<rows, chunk_size, chunk_overlap, fail>>, out |-> <<>>,
                     pre |-> store, predim |-> dimension, embedded |-> <<>>]
         /\ UNCHANGED <<store, dimension, lastAll, iter>>
    ELSE LET documents == BuildDocuments(rows, 1, chunk_size, chunk_overlap)
             res == AddTexts(store, dimension, documents, 1, fail)
         IN  /\ fail <= Len(documents)
             /\ Len(store) + Len(documents) <= MaxStore
             /\ store' = res.store
             /\ dimension' = res.dimension
             /\ lastAll' = IF res.store = store THEN lastAll ELSE NoIteration
             /\ call' = [op |-> "ingest", status |-> res.status,
                         arg |-> <<rows, chunk_size, chunk_overlap, fail>>,
                         out |-> IF res.status = "ok" THEN <<Len(documents)>> ELSE <<>>,
                         pre |-> store, predim |-> dimension,
                         embedded |-> res.embedded]
             /\ UNCHANGED iter

\* query(question, top_k): the similarity_search cell
Query(question, top_k, fail) ==
    LET r == SimilaritySearch(store, dimension, question, top_k, fail)
    IN  /\ store' = r.store
        /\ dimension' = dimension
        /\ lastAll' = IF r.store = store THEN lastAll ELSE NoIteration
        /\ call' = [op |-> "query", status |-> r.status,
                    arg |-> <<question, top_k, fail>>, out |-> r.out,
                    pre |-> store, predim |-> dimension,
                    embedded |-> r.embedded, composed |-> r.composed]
        /\ UNCHANGED iter

\* the single-document retrieval cell: similarities of the question's
\* embedding q to every chunk embedding, np.argmax, the chunk at that index.
\* cosine_similarity raises on an empty list and on a length mismatch.
Retrieve(q) ==
    /\ call' = IF store = <<>> \/ Len(q) # dimension
               THEN [op |-> "retrieve", status |-> "error", arg |-> <<q>>,
                     out |-> <<>>, pre |-> store, predim |-> dimension]
               ELSE LET closest_similarity_index == ArgMax(Scores(store, q))
                    IN  [op |-> "retrieve", status |-> "ok", arg |-> <<q>>,
                         out |-> <<[index |-> closest_similarity_index,
                                    chunk |-> store[closest_similarity_index].chunk]>>,
                         pre |-> store, predim |-> dimension]
    /\ UNCHANGED <<store, dimension, lastAll, iter>>

\* where a sequence produced by all() ends: at the store's size when all()
\* was called
IterEndLive(it, st) == Len(st)

IterEnd(it, st) == it.limit

\* all(), consumed lazily: the call itself
AllOpen ==
    /\ iter' = [open |-> TRUE, done |-> FALSE, limit |-> Len(store), pos |-> 0,
                yielded |-> <<>>, snap |-> store]
    /\ call' = [op |-> "all_open", status |-> "ok", arg |-> <<>>, out |-> <<>>,
                pre |-> store, predim |-> dimension]
    /\ UNCHANGED <<store, dimension, lastAll>>

\* the consumer takes the next entry of the open sequence
IterStep ==
    /\ iter.open
    /\ iter.pos < IterEnd(iter, store)
    /\ iter' = [iter EXCEPT !.pos = @ + 1,
                            !.yielded = Append(@, store[iter.pos + 1])]
    /\ UNCHANGED <<store, dimension, lastAll, call>>

\* the consumer finds the open sequence exhausted
IterClose ==
    /\ iter.open
    /\ iter.pos >= IterEnd(iter, store)
    /\ iter' = [iter EXCEPT !.open = FALSE, !.done = TRUE]
    /\ UNCHANGED <<store, dimension, lastAll, call>>

\* the notebook's splitter parameters
ChunkSize == 450

ChunkOverlap == 20

\* speeches of 1000, 450, 451 and 881 tokens
RowS == [meta |-> "S", notnull |-> TRUE, ntok |-> 1000]

RowT == [meta |-> "T", notnull |-> TRUE, ntok |-> 450]

RowU == [meta |-> "U", notnull |-> TRUE, ntok |-> 451]

RowV == [meta |-> "V", notnull |-> TRUE, ntok |-> 881]

SpeechSeqs == {<<RowS>>, <<RowT>>, <<RowU>>, <<RowV>>, <<RowT, RowU>>, <<RowU, RowT>>}

\* the pipeline with the notebook's splitter on full-length speeches
NextSpeeches ==
    \/ \E rows \in SpeechSeqs, fail \in 0..MaxStore :
           Ingest(rows, ChunkSize, ChunkOverlap, fail)
    \/ \E v \in VectorSet : Add(ManualChunk, v)
    \/ All

SpecSpeeches == Init /\ [][NextSpeeches]_vars

\* a sequence produced by all() consumed while adds and ingests run
NextIter ==
    \/ AllOpen
    \/ IterStep
    \/ IterClose
    \/ \E v \in VectorSet : Add(ManualChunk, v)
    \/ \E rows \in RowSeqs, p \in IngestParams :
           Ingest(rows, p[1], p[2], 0)

SpecIter == Init /\ [][NextIter]_vars

\* the chunker on its own: every text length and parameter pair
NextChunker ==
    \E n \in 0..MaxTokens, cs \in -1..MaxChunk, co \in -1..MaxChunk :
        Split(n, cs, co)

SpecChunker == Init /\ [][NextChunker]_vars

\* the store, the index and the pipeline
Next ==
    \/ \E v \in VectorSet : Add(ManualChunk, v)
    \/ All
    \/ \E q \in QuerySet, k \in 0..MaxK : Search(q, k)
    \/ \E rows \in RowSeqs, p \in IngestParams, fail \in 0..MaxStore :
           Ingest(rows, p[1], p[2], fail)
    \/ \E question \in QuestionSet, top_k \in 0..MaxK, fail \in BOOLEAN :
           Query(question, top_k, fail)
    \/ \E q \in QuerySet : Retrieve(q)

Spec == Init /\ [][Next]_vars

\* ---------------------------------------------------------------- Chunker properties
SplitDone == call.op = "split"

SplitOk == call.op = "split" /\ call.status = "ok"

\* 0-based offset of the first token of window w
StartOf(w) == w[1] - 1

\* the set of token positions held by window w
TokensOf(w) == {w[j] : j \in 1..Len(w)}

\* C4 (as stated): for every N > 0 and valid max_tokens > overlap_tokens >= 0,
\* including N <= overlap_tokens, split returns exactly
\* ceil((N - overlap_tokens) / (max_tokens - overlap_tokens)) windows.
C4_CountClosedForm ==
    (SplitOk /\ call.arg[1] > 0) =>
        Len(call.out) = CeilDiv(call.arg[1] - call.arg[3], call.arg[2] - call.arg[3])

\* C4 (amended): for every N > 0 and valid pair, split returns exactly
\* max(1, ceil((N - overlap_tokens) / (max_tokens - overlap_tokens))) windows:
\* the closed form when N > overlap_tokens, and one window when N <= overlap_tokens.
C4_CountAmended ==
    (SplitOk /\ call.arg[1] > 0) =>
        Len(call.out) =
            Max(1, CeilDiv(call.arg[1] - call.arg[3], call.arg[2] - call.arg[3]))

C4_Witness ==
    /\ SplitOk
    /\ call.arg[3] > 0
    /\ call.arg[1] > call.arg[2]
    /\ Len(call.out) >= 3

\* C5: for every non-empty token sequence and valid parameters the windows
\* cover every token position, each window is a contiguous span of at most
\* max_tokens tokens, and the windows are in order of increasing start.
C5_Coverage ==
    (SplitOk /\ call.arg[1] > 0) =>
        /\ \A p \in 1..call.arg[1] :
               \E i \in 1..Len(call.out) : p \in TokensOf(call.out[i])
        /\ \A i \in 1..Len(call.out) :
               /\ Len(call.out[i]) >= 1
               /\ Len(call.out[i]) <= call.arg[2]
               /\ \A j \in 1..(Len(call.out[i]) - 1) :
                      call.out[i][j + 1] = call.out[i][j] + 1
               /\ TokensOf(call.out[i]) \subseteq 1..call.arg[1]
        /\ \A i \in 1..(Len(call.out) - 1) :
               StartOf(call.out[i]) < StartOf(call.out[i + 1])

C5_Witness ==
    /\ SplitOk
    /\ call.arg[1] = MaxTokens
    /\ Len(call.out) >= 2
    /\ Len(call.out[Len(call.out)]) < call.arg[2]

\* C6: window i+1 starts exactly max_tokens - overlap_tokens tokens after
\* window i, consecutive windows share exactly overlap_tokens tokens (the
\* last overlap_tokens of window i are the first overlap_tokens of window
\* i+1), and only the final window may be shorter than max_tokens.
C6_StrideAndOverlap ==
    SplitOk =>
        \A i \in 1..(Len(call.out) - 1) :
            LET w == call.out[i]
                x == call.out[i + 1]
                ov == call.arg[3]
            IN  /\ StartOf(x) = StartOf(w) + (call.arg[2] - ov)
                /\ Len(w) = call.arg[2]
                /\ Len(x) >= ov
                /\ SubSeq(w, Len(w) - ov + 1, Len(w)) = SubSeq(x, 1, ov)
                /\ Cardinality(TokensOf(w) \cap TokensOf(x)) = ov

C6_Witness ==
    /\ SplitOk
    /\ call.arg[3] = 2
    /\ Len(call.out) >= 3
    /\ Len(call.out[Len(call.out)]) < call.arg[2]

\* C10: split raises an input error and returns no windows whenever
\* max_tokens <= overlap_tokens or max_tokens <= 0, for every text
\* including the empty one.
C10_BadParamsRejected ==
    (SplitDone /\ (call.arg[2] <= call.arg[3] \/ call.arg[2] <= 0)) =>
        (call.status = "input_error" /\ call.out = <<>>)

C10_Witness ==
    /\ SplitDone
    /\ call.arg[1] = 0
    /\ call.arg[2] = call.arg[3]
    /\ call.arg[2] > 0
    /\ call.status = "input_error"

\* ---------------------------------------------------------------- Store, index and pipeline properties
\* C1: search(q, k) returns exactly min(k, store size) results, each the
\* stored chunk with its cosine score, sorted by descending score, entries
\* of equal score in ascending insertion order.
C1_SearchSorted ==
    (call.op = "search" /\ call.status = "ok") =>
        LET out == call.out
            q == call.arg[1]
        IN  /\ Len(out) = Min(call.arg[2], Len(store))
            /\ \A r \in 1..Len(out) :
                   /\ out[r].index \in 1..Len(store)
                   /\ out[r].chunk = store[out[r].index].chunk
                   /\ out[r].score = Cosine(store[out[r].index].vector, q)
            /\ \A r \in 1..(Len(out) - 1) :
                   /\ ~ScoreLess(out[r].score, out[r + 1].score)
                   /\ ScoreEq(out[r].score, out[r + 1].score)
                          => out[r].index < out[r + 1].index

C1_Witness ==
    /\ call.op = "search"
    /\ call.status = "ok"
    /\ call.arg[2] = 2
    /\ Len(store) = 3
    /\ Len(call.out) = 2
    /\ ScoreEq(call.out[1].score, call.out[2].score)
    /\ call.out[1].index = 2

\* C2: when the Embedder fails for any chunk during an ingest call, the
\* store after the failed call holds exactly the entries it held before.
C2_IngestAtomic ==
    (call.op = "ingest" /\ call.status = "collaborator_error") =>
        store = call.pre

WindowsOf(row, chunk_size, chunk_overlap) ==
    IF row.notnull THEN SplitText(Tokens(row.ntok), chunk_size, chunk_overlap)
    ELSE <<>>

\* the number of windows of rows 1..d
RECURSIVE WindowsUpTo(_, _, _, _)
WindowsUpTo(rows, d, chunk_size, chunk_overlap) ==
    IF d = 0 THEN 0
    ELSE WindowsUpTo(rows, d - 1, chunk_size, chunk_overlap)
         + Len(WindowsOf(rows[d], chunk_size, chunk_overlap))

\* C8: a successful ingest stores the chunks in document order and, within
\* a document, in chunk-ordinal order, and returns the count of chunks
\* stored: the sum over the documents of the chunker's window counts.
C8_IngestOrderAndCount ==
    (call.op = "ingest" /\ call.status = "ok") =>
        LET rows == call.arg[1]
            cs == call.arg[2]
            co == call.arg[3]
            total == WindowsUpTo(rows, Len(rows), cs, co)
        IN  /\ call.out = <<total>>
            /\ Len(store) = Len(call.pre) + total
            /\ SubSeq(store, 1, Len(call.pre)) = call.pre
            /\ \A d \in 1..Len(rows) :
                   \A i \in 1..Len(WindowsOf(rows[d], cs, co)) :
                       LET e == store[Len(call.pre)
                                      + WindowsUpTo(rows, d - 1, cs, co) + i]
                       IN  /\ e.chunk.meta = rows[d].meta
                           /\ e.chunk.chunk_num = i
                           /\ e.chunk.body = WindowsOf(rows[d], cs, co)[i]

C8_Witness ==
    /\ call.op = "ingest"
    /\ call.status = "ok"
    /\ Len(call.arg[1]) = 2
    /\ call.out = <<3>>
    /\ Len(store) = 3
    /\ store[1].chunk.meta = "B"
    /\ store[3].chunk.chunk_num = 2

\* C9: all() called again with no add in between yields the same sequence
\* as the call before it, the store's entries in insertion order from the
\* start.
C9_AllIdempotent ==
    call.op = "all" =>
        /\ call.out = store
        /\ call.arg[1].valid => call.out = call.arg[1].seq

C9_Witness ==
    /\ call.op = "all"
    /\ call.arg[1].valid
    /\ Len(call.out) >= 2

\* the all-zero test on a vector
IsZero(v) == \A i \in 1..Len(v) : v[i] = 0

\* C11: search raises an input error, returns no results and leaves the
\* store unchanged when the query vector's dimension differs from the
\* established dimension or when k is not positive.
C11_SearchBadArgs ==
    (/\ call.op = "search"
     /\ \/ call.arg[2] <= 0
        \/ call.predim # 0 /\ Len(call.arg[1]) # call.predim) =>
        /\ call.status = "input_error"
        /\ call.out = <<>>
        /\ store = call.pre
        /\ dimension = call.predim

C11_Witness ==
    /\ call.op = "search"
    /\ call.status = "input_error"
    /\ call.arg[2] > 0
    /\ call.predim = 2
    /\ Len(call.arg[1]) = 1
    /\ Len(store) >= 2

\* C12: cosine similarity is 0 whenever either vector has zero norm: a
\* search with a zero query, or over a store holding a zero vector, completes
\* without an error and gives those pairs the score 0 (a well-defined
\* number), zero-norm entries being ranked like any entry of score 0.
C12_ZeroNormScoresZero ==
    (/\ call.op = "search"
     /\ call.arg[2] > 0
     /\ call.predim = 0 \/ Len(call.arg[1]) = call.predim) =>
        /\ call.status = "ok"
        /\ \A r \in 1..Len(call.out) :
               /\ call.out[r].score.den > 0
               /\ (IsZero(call.arg[1]) \/ IsZero(store[call.out[r].index].vector))
                      => call.out[r].score.num = 0
        /\ \A r \in 1..(Len(call.out) - 1) :
               (call.out[r].score.num = 0 /\ call.out[r + 1].score.num = 0)
                   => call.out[r].index < call.out[r + 1].index

C12_Witness ==
    /\ call.op = "search"
    /\ call.status = "ok"
    /\ ~IsZero(call.arg[1])
    /\ Len(call.out) = 3
    /\ ~IsZero(store[call.out[2].index].vector)
    /\ IsZero(store[call.out[3].index].vector)
    /\ call.out[2].score.num = 0
    /\ call.out[1].score.num > 0

\* C13: ingesting one document of 1000 tokens with max_tokens = 450 and
\* overlap_tokens = 20 into an empty store stores exactly 3 chunks, whose
\* windows start at token offsets 0, 430 and 860, the last covering tokens
\* 860..999 (140 tokens).
C13_ThousandTokens ==
    (/\ call.op = "ingest"
     /\ call.pre = <<>>
     /\ call.arg = <<(<<RowS>>), 450, 20, 0>>) =>
        /\ call.status = "ok"
        /\ call.out = <<3>>
        /\ Len(store) = 3
        /\ StartOf(store[1].chunk.body) = 0
        /\ StartOf(store[2].chunk.body) = 430
        /\ StartOf(store[3].chunk.body) = 860
        /\ Len(store[1].chunk.body) = 450
        /\ Len(store[2].chunk.body) = 450
        /\ store[3].chunk.body = [i \in 1..140 |-> 860 + i]

C13_Witness ==
    /\ call.op = "ingest"
    /\ call.pre = <<>>
    /\ call.arg = <<(<<RowS>>), 450, 20, 0>>
    /\ Len(store) = 3

\* C14: the store is append-only.  Across every step (add, ingest, all,
\* search, query, retrieval; successful or failed) the sequence before the
\* step is a prefix of the sequence after it, so no stored entry's text,
\* metadata or vector changes, and none is removed or de-duplicated.
C14_AppendOnly ==
    [][/\ Len(store) <= Len(store')
       /\ SubSeq(store', 1, Len(store)) = store]_vars

\* a successful ingest onto a non-empty store that already holds the same
\* chunk it appends again: the duplicate is kept
C14_Witness ==
    /\ call.op = "ingest"
    /\ call.status = "ok"
    /\ Len(call.pre) >= 1
    /\ Len(store) > Len(call.pre)
    /\ \E i \in 1..Len(call.pre) : store[i] = store[Len(store)]

EmbedderFailed ==
    \/ /\ call.op = "ingest"
       /\ \E j \in 1..Len(call.embedded) : call.embedded[j] = call.arg[4]
    \/ /\ call.op = "query"
       /\ call.arg[3]

\* C16: when the Embedder fails during ingest or query, the call fails with
\* the collaborator's failure, no text is handed to the Embedder twice, and
\* the store is as it was before the call.
C16_EmbedderFailure ==
    EmbedderFailed =>
        /\ call.status = "collaborator_error"
        /\ \A i, j \in 1..Len(call.embedded) :
               call.embedded[i] = call.embedded[j] => i = j
        /\ store = call.pre

\* C17: query(question, top_k) hands the question to the Embedder once,
\* searches the store with the embedding and top_k and returns that result;
\* it makes no call to the Answer Composer, and whether it succeeds or fails
\* the store and its dimension are as before (neither the question nor its
\* embedding is stored).
C17_QueryReadsOnly ==
    call.op = "query" =>
        LET question == call.arg[1]
            top_k    == call.arg[2]
            fail     == call.arg[3]
        IN  /\ call.embedded = <<question>>
            /\ call.composed = 0
            /\ store = call.pre
            /\ dimension = call.predim
            /\ fail => call.status = "collaborator_error"
            /\ (~fail /\ SearchRejects(call.predim, Embed(question), top_k)) =>
                   call.status = "input_error"
            /\ (~fail /\ ~SearchRejects(call.predim, Embed(question), top_k)) =>
                   /\ call.status = "ok"
                   /\ call.out = TopK(call.pre, Embed(question), top_k)
            /\ call.status # "ok" => call.out = <<>>

\* a successful query that returned two chunks in non-insertion order
C17_Witness ==
    /\ call.op = "query"
    /\ call.status = "ok"
    /\ Len(call.out) >= 2
    /\ call.out[1].index > call.out[2].index

\* C18: the sequence produced by all() is the store's content in insertion
\* order as of the call: what has been produced so far is a prefix of the
\* store at the call, a finished iteration produced exactly that store, and
\* entries added by an add or ingest during the iteration never appear.
C18_AllAsOfCall ==
    /\ iter.pos <= Len(iter.snap)
    /\ iter.yielded = SubSeq(iter.snap, 1, iter.pos)
    /\ iter.done => iter.yielded = iter.snap

\* an iteration that finished after the store had grown past what it held
\* when all() was called
C18_Witness ==
    /\ iter.done
    /\ Len(iter.snap) >= 1
    /\ Len(store) > Len(iter.snap)
    /\ iter.yielded = iter.snap

\* C19: every chunk an ingest stores (also one that fails part-way) is the
\* record of its document's metadata rendering and the chunk's window: the
\* rendering names the 1-based ordinal i and the document's total T,
\* 1 <= i <= T, T the number of windows the chunker produced for that
\* document, the ordinals of one document being 1..T in storage order; a
\* document whose text yields zero windows contributes no stored chunk.
C19_ChunkRendering ==
    (call.op = "ingest" /\ call.arg[2] > call.arg[3]) =>
        LET rows == call.arg[1]
            cs == call.arg[2]
            co == call.arg[3]
            base == Len(call.pre)
        IN  /\ Len(store) <= base + WindowsUpTo(rows, Len(rows), cs, co)
            /\ \A d \in 1..Len(rows) :
                   LET T == Len(WindowsOf(rows[d], cs, co))
                   IN  /\ \A i \in 1..T :
                              LET p == base + WindowsUpTo(rows, d - 1, cs, co) + i
                              IN  p <= Len(store) =>
                                      /\ 1 <= store[p].chunk.chunk_num
                                      /\ store[p].chunk.chunk_num <= store[p].chunk.total_chunks
                                      /\ store[p].chunk =
                                             [meta |-> rows[d].meta, chunk_num |-> i,
                                              total_chunks |-> T,
                                              body |-> WindowsOf(rows[d], cs, co)[i]]
                       /\ T = 0 =>
                              \A p \in (base + 1)..Len(store) :
                                  store[p].chunk.meta # rows[d].meta

\* a successful ingest of a document with no tokens followed by a document
\* of two windows: two chunks stored, numbered 1 and 2 of 2
C19_Witness ==
    /\ call.op = "ingest"
    /\ call.status = "ok"
    /\ call.pre = <<>>
    /\ Len(call.arg[1]) = 2
    /\ Len(WindowsOf(call.arg[1][1], call.arg[2], call.arg[3])) = 0
    /\ call.arg[1][1].notnull
    /\ Len(store) = 2
    /\ store[1].chunk.chunk_num = 1
    /\ store[2].chunk.chunk_num = 2
    /\ store[2].chunk.total_chunks = 2

\* C20: the single-document retrieval (similarity of the question embedding
\* to every chunk embedding, np.argmax, the chunk at that index) selects the
\* chunk that search(q, 1) returns first over the same store: a chunk of
\* the highest score, and among chunks of equal highest score the earliest.
C20_ArgMaxIsSearchFirst ==
    (call.op = "retrieve" /\ call.status = "ok") =>
        LET q == call.arg[1]
            sc == Scores(call.pre, q)
            top == TopK(call.pre, q, 1)
            idx == call.out[1].index
        IN  /\ ~SearchRejects(call.predim, q, 1)
            /\ Len(top) = 1
            /\ idx = top[1].index
            /\ call.out[1].chunk = top[1].chunk
            /\ \A j \in 1..Len(sc) :
                   /\ ~ScoreLess(sc[idx], sc[j])
                   /\ ScoreEq(sc[j], sc[idx]) => idx <= j

\* a retrieval where the highest score is shared by the selected chunk and
\* a later one, and an earlier chunk scores lower
C20_Witness ==
    /\ call.op = "retrieve"
    /\ call.status = "ok"
    /\ LET sc == Scores(call.pre, call.arg[1])
           idx == call.out[1].index
       IN  /\ \E j \in 1..Len(sc) : j > idx /\ ScoreEq(sc[j], sc[idx])
           /\ \E j \in 1..Len(sc) : j < idx /\ ScoreLess(sc[j], sc[idx])

====
